---- MODULE Spec2Model ----
(***************************************************************************)
(* A model of mete_sads.py: run_test (the per-site fitting pipeline that   *)
(* appends species-level and site-level rows to two csv files) and         *)
(* plot_weights (the three-bin histogram of Akaike weights).               *)
(*                                                                         *)
(* Conventions.                                                            *)
(*  - A site identifier is a sequence of character codes, so that the      *)
(*    byte-string order np.sort uses is the lexicographic order below.     *)
(*  - An input row is either a record [site, ab] or BadRow, a row that     *)
(*    genfromtxt rejects.  The year and sp columns are loaded by           *)
(*    genfromtxt but never read by run_test, and are left out.             *)
(*  - Weights are counted in tenths: 10 is 1.0, 4 is 0.4, -10 is -1.       *)
(*  - The collaborators mete, macroeco_distributions and weestats are not  *)
(*    part of the source.  Their numeric results are kept symbolic (pred,  *)
(*    p) or drawn once per data vector and remembered (memo), so that the  *)
(*    same data always yields the same outcome; any of them may raise:     *)
(*    "mete" is a raise in lines 50-58, "AICc" one in lines 61-63.  The    *)
(*    numeric weight is drawn only where aic_weight reads it.              *)
(***************************************************************************)
EXTENDS Integers, Sequences, FiniteSets

\* ---------------------------------------------------------------- bounds
MaxRecords == 4
MaxCutoff == 3
MaxCalls == 2
MaxPlotRows == 3

\* ------------------------------------------------------ program constants
SiteWidth == 9
k1 == 1
k2 == 2
\* a caller that passes a weight cutoff one too high
WeightCutoffOff == 4 + 1
WeightCutoff == 4
Sentinel == -10

SiteIds == {<<2>>, <<1, 2>>}
Abundances == {0, 1, 2}
BadRow == [site |-> <<>>, ab |-> -1, bad |-> TRUE]
GoodRows == {[site |-> s, ab |-> a, bad |-> FALSE] : s \in SiteIds, a \in Abundances}
Rows == GoodRows \cup {BadRow}
Cutoffs == 0..MaxCutoff
WeightVals == {0, 10}
RaiseKinds == {"mete", "AICc"}
PlotWeightVals == {-10, -1, 0, 3, 4, 5, 6, 10, 12}

VARIABLES
    input,      \* the rows of the input file
    cutoff,     \* run_test's cutoff argument
    out1,       \* rows of output_filename1 (species level)
    out2,       \* rows of output_filename2 (site level)
    pc,         \* position in run_test
    ifile,      \* the loaded array
    usites,     \* sorted distinct sites
    f1open,     \* output 1 is open for append
    f2open,     \* output 2 is open for append
    i,          \* loop index (1-based)
    subsites,   \* site column of the current site's records
    S,          \* richness of the current site
    subab,      \* abundances of the current site
    N,          \* total abundance of the current site
    memo,       \* outcomes of the external collaborators seen so far
    aiccN,      \* the sample sizes n with which weestats.AICc was called
    calls,      \* number of calls of run_test made
    snaps,      \* the two files as they were when each call began
    height      \* plot_weights' bar heights

vars == <<input, cutoff, out1, out2, pc, ifile, usites, f1open, f2open, i,
          subsites, S, subab, N, memo, aiccN, calls, snaps, height>>

\* --------------------------------------------------------------- helpers
Min(a, b) == IF a < b THEN a ELSE b

RECURSIVE SumSeq(_)
SumSeq(s) == IF s = <<>> THEN 0 ELSE Head(s) + SumSeq(Tail(s))

RECURSIVE Insert(_, _)
Insert(x, s) ==
    IF s = <<>> THEN <<x>>
    ELSE IF x <= Head(s) THEN <<x>> \o s
    ELSE <<Head(s)>> \o Insert(x, Tail(s))

RECURSIVE np_sort(_)
np_sort(s) == IF s = <<>> THEN <<>> ELSE Insert(Head(s), np_sort(Tail(s)))

Reverse(s) == [j \in 1..Len(s) |-> s[Len(s) + 1 - j]]

RECURSIVE LexLeq(_, _)
LexLeq(a, b) ==
    IF a = <<>> THEN TRUE
    ELSE IF b = <<>> THEN FALSE
    ELSE IF Head(a) < Head(b) THEN TRUE
    ELSE IF Head(a) > Head(b) THEN FALSE
    ELSE LexLeq(Tail(a), Tail(b))

\* a sort in descending order
RECURSIVE SortSitesDescending(_)
SortSitesDescending(set) ==
    IF set = {} THEN <<>>
    ELSE LET m == CHOOSE x \in set : \A y \in set : LexLeq(y, x)
         IN  <<m>> \o SortSitesDescending(set \ {m})

RECURSIVE SortSites(_)
SortSites(set) ==
    IF set = {} THEN <<>>
    ELSE LET m == CHOOSE x \in set : \A y \in set : LexLeq(x, y)
         IN  <<m>> \o SortSites(set \ {m})

RECURSIVE Select(_, _)
Select(s, site) ==
    IF s = <<>> THEN <<>>
    ELSE IF Head(s).site = site THEN <<Head(s)>> \o Select(Tail(s), site)
    ELSE Select(Tail(s), site)

\* dtype "S9": a site is cut to its first nine bytes
S9(site) == SubSeq(site, 1, Min(Len(site), SiteWidth))

HasBad(rows) == \E j \in 1..Len(rows) : rows[j].bad

genfromtxt(rows) == [j \in 1..Len(rows) |-> [site |-> S9(rows[j].site), ab |-> rows[j].ab]]

\* mete.get_mete_sad(S, N): S predicted abundances and p, kept symbolic
mete_pred(s, n) == [j \in 1..s |-> <<"pred", s, n, j>>]
mete_p(s, n) == <<"p", s, n>>

\* weestats.aic_weight(AICc1, AICc2, n, cutoff): w stands for the numeric weight
aic_weight(w, n, wcutoff) == IF n < wcutoff THEN Sentinel ELSE w

Outcomes(d) ==
    IF \E m \in memo : m.data = d
    THEN {m \in memo : m.data = d}
    ELSE {[data |-> d, raises |-> "no", w |-> w] :
                w \in IF Len(d) < WeightCutoff THEN {0} ELSE WeightVals}
         \cup {[data |-> d, raises |-> r, w |-> 0] : r \in RaiseKinds}

PriorRows1 == <<[site |-> <<1>>, obs |-> 1, pred |-> <<"pred", 1, 1, 1>>]>>
PriorRows2 == <<[site |-> <<1>>, S |-> 1, N |-> 1, p |-> <<"p", 1, 1>>, weight |-> Sentinel]>>

NoPlot == [data |-> "none", bars |-> <<>>]

InputsOfLen(n) == [1..n -> Rows]
Inputs == UNION {InputsOfLen(n) : n \in 1..MaxRecords}

\* ------------------------------------------------------------------ Init
Init ==
    /\ input \in Inputs
    /\ cutoff \in Cutoffs
    /\ out1 = PriorRows1
    /\ out2 = PriorRows2
    /\ pc = "idle"
    /\ ifile = <<>>
    /\ usites = <<>>
    /\ f1open = FALSE
    /\ f2open = FALSE
    /\ i = 0
    /\ subsites = <<>>
    /\ S = 0
    /\ subab = <<>>
    /\ N = 0
    /\ memo = {}
    /\ aiccN = {}
    /\ calls = 0
    /\ snaps = <<>>
    /\ height = NoPlot

\* --------------------------------------------------------------- actions
\* run_test(input_filename, output_filename1, output_filename2, cutoff)
Call ==
    /\ pc \in {"idle", "returned", "raised"}
    /\ calls < MaxCalls
    /\ calls' = calls + 1
    /\ snaps' = Append(snaps, [f1 |-> out1, f2 |-> out2])
    /\ pc' = "line35"
    /\ ifile' = <<>>
    /\ usites' = <<>>
    /\ f1open' = FALSE
    /\ f2open' = FALSE
    /\ i' = 0
    /\ subsites' = <<>>
    /\ S' = 0
    /\ subab' = <<>>
    /\ N' = 0
    /\ UNCHANGED <<input, cutoff, out1, out2, memo, aiccN, height>>

\* the outputs opened before the input is loaded
LoadAfterOpen ==
    /\ pc = "line35"
    /\ f1open' = TRUE
    /\ f2open' = TRUE
    /\ IF HasBad(input) \/ Len(input) = 1
       THEN /\ pc' = "raised"
            /\ UNCHANGED <<ifile, usites>>
       ELSE /\ pc' = "line40"
            /\ ifile' = genfromtxt(input)
            /\ usites' = SortSites({ifile'[j].site : j \in 1..Len(ifile')})
    /\ UNCHANGED <<input, cutoff, out1, out2, i,
                   subsites, S, subab, N, memo, aiccN, calls, snaps, height>>

\* lines 35-38.  np.genfromtxt raises on a row it cannot take; a one-row file
\* loads as a 0-d array, which set() cannot iterate.
Load ==
    /\ pc = "line35"
    /\ IF HasBad(input) \/ Len(input) = 1
       THEN /\ pc' = "raised"
            /\ UNCHANGED <<ifile, usites>>
       ELSE /\ pc' = "line40"
            /\ ifile' = genfromtxt(input)
            /\ usites' = SortSites({ifile'[j].site : j \in 1..Len(ifile')})
    /\ UNCHANGED <<input, cutoff, out1, out2, f1open, f2open, i,
                   subsites, S, subab, N, memo, aiccN, calls, snaps, height>>

\* the outputs opened in write mode, which empties them
OpenOutputsTruncating ==
    /\ pc = "line40"
    /\ f1open' = TRUE
    /\ f2open' = TRUE
    /\ out1' = <<>>
    /\ out2' = <<>>
    /\ i' = 1
    /\ pc' = "loop"
    /\ UNCHANGED <<input, cutoff, ifile, usites,
                   subsites, S, subab, N, memo, aiccN, calls, snaps, height>>

\* lines 40-41: both outputs are opened in append mode
OpenOutputs ==
    /\ pc = "line40"
    /\ f1open' = TRUE
    /\ f2open' = TRUE
    /\ i' = 1
    /\ pc' = "loop"
    /\ UNCHANGED <<input, cutoff, out1, out2, ifile, usites,
                   subsites, S, subab, N, memo, aiccN, calls, snaps, height>>

\* lines 44-47: the records of site usites[i]
SiteRecords == Select(ifile, usites[i])
SiteS == Len(SiteRecords)
SiteAb == np_sort([j \in 1..Len(SiteRecords) |-> SiteRecords[j].ab])
\* N taken as the number of records
SiteNCountsRecords == Len(SiteAb)
SiteN == SumSeq(SiteAb)

Group ==
    /\ pc = "loop"
    /\ i <= Len(usites)
    /\ subsites' = [j \in 1..Len(SiteRecords) |-> SiteRecords[j].site]
    /\ S' = SiteS
    /\ N' = SiteN

\* a test that lets S = cutoff through
PassesAtLeast(s, c) == s >= c

\* line 48: the test that lets a site through
Passes(s, c) == s > c

\* lines 44-48, S <= cutoff: nothing is done for the site
SkipSite ==
    /\ Group
    /\ ~Passes(SiteS, cutoff)
    /\ subab' = SiteAb
    /\ i' = i + 1
    /\ pc' = "loop"
    /\ UNCHANGED <<input, cutoff, out1, out2, ifile, usites, f1open, f2open,
                   memo, aiccN, calls, snaps, height>>

\* line 65: np.column_stack((subsites, subab, pred))
SpeciesRows(sites, obs, pred) ==
    [j \in 1..Len(sites) |-> [site |-> sites[j], obs |-> obs[j], pred |-> pred[j]]]

\* line 66: np.column_stack((usites[i], S, N, p, weight))
SiteRow(site, s, n, p, weight) ==
    [site |-> site, S |-> s, N |-> n, p |-> p, weight |-> weight]

\* the observed abundances left in ascending order
ObservedAscending(ab) == np_sort(ab)

\* line 53: np.sort(subab)[::-1]
Observed(ab) == Reverse(np_sort(ab))

\* lines 44-68, every collaborator returns: the rows of the site are written
FitSite ==
    /\ Group
    /\ Passes(SiteS, cutoff)
    /\ \E r \in Outcomes(Observed(SiteAb)) :
          /\ r.raises = "no"
          /\ memo' = memo \cup {r}
          /\ aiccN' = aiccN \cup {SiteS}
          /\ subab' = Observed(SiteAb)
          /\ out1' = out1 \o SpeciesRows(subsites', subab', mete_pred(SiteS, SiteN))
          /\ out2' = out2 \o <<SiteRow(usites[i], SiteS, SiteN, mete_p(SiteS, SiteN),
                                       aic_weight(r.w, SiteS, WeightCutoff))>>
    /\ i' = i + 1
    /\ pc' = "loop"
    /\ UNCHANGED <<input, cutoff, ifile, usites, f1open, f2open, calls, snaps, height>>

\* a raise that is caught: the site is dropped and the loop goes on
FitRaiseCaught ==
    /\ Group
    /\ Passes(SiteS, cutoff)
    /\ \E r \in Outcomes(Observed(SiteAb)) :
          /\ r.raises # "no"
          /\ memo' = memo \cup {r}
          /\ aiccN' = IF r.raises = "mete" THEN aiccN ELSE aiccN \cup {SiteS}
    /\ subab' = Observed(SiteAb)
    /\ i' = i + 1
    /\ pc' = "loop"
    /\ UNCHANGED <<input, cutoff, out1, out2, ifile, usites, f1open, f2open,
                   calls, snaps, height>>

\* lines 44-63, a collaborator raises: nothing catches it, run_test ends
FitRaise ==
    /\ Group
    /\ Passes(SiteS, cutoff)
    /\ \E r \in Outcomes(Observed(SiteAb)) :
          /\ r.raises # "no"
          /\ memo' = memo \cup {r}
          /\ aiccN' = IF r.raises = "mete" THEN aiccN ELSE aiccN \cup {SiteS}
    /\ subab' = Observed(SiteAb)
    /\ pc' = "raised"
    /\ f1open' = FALSE
    /\ f2open' = FALSE
    /\ UNCHANGED <<input, cutoff, out1, out2, ifile, usites, i, calls, snaps, height>>

\* line 43, the range is exhausted: run_test returns
Return ==
    /\ pc = "loop"
    /\ i > Len(usites)
    /\ pc' = "returned"
    /\ f1open' = FALSE
    /\ f2open' = FALSE
    /\ UNCHANGED <<input, cutoff, out1, out2, ifile, usites, i,
                   subsites, S, subab, N, memo, aiccN, calls, snaps, height>>

Next ==
    \/ Call
    \/ Load
    \/ OpenOutputs
    \/ SkipSite
    \/ FitSite
    \/ FitRaise
    \/ Return

Spec == Init /\ [][Next]_vars

\* ---------------------------------------------------------- plot_weights
\* a filter that drops the weight 0
KeepPositive(w) == w > 0

\* line 94: weights[weights >= 0]
Keep(w) == w >= 0

RECURSIVE Filter(_)
Filter(ws) ==
    IF ws = <<>> THEN <<>>
    ELSE IF Keep(Head(ws)) THEN <<Head(ws)>> \o Filter(Tail(ws))
    ELSE Filter(Tail(ws))

\* line 95: bins = [0, 0.4, 0.6, 1], in tenths
bins == <<0, 4, 6, 10>>

\* np.histogram: every bin is half-open but the last, which is closed
InBin(w, b) ==
    /\ bins[b] <= w
    /\ IF b = Len(bins) - 1 THEN w <= bins[b + 1] ELSE w < bins[b + 1]

histogram(ws) ==
    [b \in 1..(Len(bins) - 1) |-> Cardinality({j \in 1..Len(ws) : InBin(ws[j], b)})]

\* lines 98-101; cts[0] * 100 / sum(cts[0]) is an integer division, and numpy
\* gives 0 where an integer is divided by 0
Heights(cts, data) ==
    IF data = "raw" THEN cts
    ELSE [b \in 1..Len(cts) |->
            IF SumSeq(cts) = 0 THEN 0 ELSE (cts[b] * 100) \div SumSeq(cts)]

\* plot_weights(input_filename, data): the site-level file is out2
PlotWeights(data) ==
    /\ LET weights == Filter([j \in 1..Len(out2) |-> out2[j].weight])
       IN  height' = [data |-> data, bars |-> Heights(histogram(weights), data)]
    /\ UNCHANGED <<input, cutoff, out1, out2, pc, ifile, usites, f1open, f2open, i,
                   subsites, S, subab, N, memo, aiccN, calls, snaps>>

PlotRows == {SiteRow(<<1>>, 1, 1, mete_p(1, 1), w) : w \in PlotWeightVals}
PlotFiles == UNION {[1..n -> PlotRows] : n \in 0..MaxPlotRows}

InitPlot ==
    /\ input = <<>>
    /\ cutoff = 0
    /\ out1 = <<>>
    /\ out2 \in PlotFiles
    /\ pc = "idle"
    /\ ifile = <<>>
    /\ usites = <<>>
    /\ f1open = FALSE
    /\ f2open = FALSE
    /\ i = 0
    /\ subsites = <<>>
    /\ S = 0
    /\ subab = <<>>
    /\ N = 0
    /\ memo = {}
    /\ aiccN = {}
    /\ calls = 0
    /\ snaps = <<>>
    /\ height = NoPlot

NextPlot ==
    \/ PlotWeights("raw")
    \/ PlotWeights("percent")

SpecPlot == InitPlot /\ [][NextPlot]_vars

\* ------------------------------------------------- vocabulary of the claims
Take(s, n) == SubSeq(s, 1, Min(n, Len(s)))
Drop(s, n) == SubSeq(s, Min(n, Len(s)) + 1, Len(s))

\* what the current call has appended to each file so far
Written1 == IF calls = 0 THEN <<>> ELSE Drop(out1, Len(snaps[calls].f1))
Written2 == IF calls = 0 THEN <<>> ELSE Drop(out2, Len(snaps[calls].f2))

\* the two files when call k ended (k < calls), or as they are now
After(k) == IF k < calls THEN snaps[k + 1] ELSE [f1 |-> out1, f2 |-> out2]
Ended(k) == k < calls \/ pc \in {"returned", "raised"}

\* the input's records of a site, as written in the input file
InputOf(site) == Select(input, site)
InputAb(site) == [j \in 1..Len(InputOf(site)) |-> InputOf(site)[j].ab]
InputSites == {input[j].site : j \in 1..Len(input)}

Count(s, v) == Cardinality({j \in 1..Len(s) : s[j] = v})
SameMultiset(a, b) ==
    /\ Len(a) = Len(b)
    /\ \A j \in 1..Len(a) : Count(a, a[j]) = Count(b, a[j])
NonIncreasing(s) == \A j \in 1..(Len(s) - 1) : s[j] >= s[j + 1]

InLoop == pc \in {"loop", "returned", "raised"} /\ i >= 1
\* the sites whose iteration the current call has gone through
Passed == IF InLoop THEN {usites[j] : j \in 1..Min(i - 1, Len(usites))} ELSE {}
\* an iteration of the loop has run and S, N hold its values
Iterated == InLoop /\ (i > 1 \/ pc = "raised")

\* the collaborators raise on the data of usites[j]
RaisesAt(j) ==
    \E m \in memo :
        /\ m.data = Observed(InputAb(usites[j]))
        /\ m.raises # "no"

\* ---------------------------------------------------------------- claims

C2_ProcessedSiteRows ==
    /\ pc = "returned" => Passed = InputSites
    /\ \A s \in Passed :
          Len(InputOf(s)) > cutoff =>
              LET r1  == Select(Written1, s)
                  r2  == Select(Written2, s)
                  obs == [j \in 1..Len(r1) |-> r1[j].obs]
              IN  /\ Len(r1) = Len(InputOf(s))
                  /\ Len(r2) = 1
                  /\ r2[1].S = Len(InputOf(s))
                  /\ r2[1].N = SumSeq(InputAb(s))
                  /\ r2[1].p = mete_p(r2[1].S, r2[1].N)
                  /\ NonIncreasing(obs)
                  /\ SameMultiset(obs, InputAb(s))
                  /\ \A j \in 1..Len(r1) : r1[j].pred = mete_pred(r2[1].S, r2[1].N)[j]

C2_Witness ==
    /\ pc = "returned"
    /\ \E s \in Passed :
          /\ Len(InputOf(s)) > cutoff
          /\ Len(InputOf(s)) >= 3
          /\ ~NonIncreasing(InputAb(s))
          /\ Select(Written1, s) # <<>>

\* C3: within one call the rows come in ascending order of site identifier in
\* both outputs, so the rows of one site are contiguous; the site-level output
\* has no site twice.
C3_RowsInSiteOrder ==
    /\ \A a, b \in 1..Len(Written1) :
          a < b => LexLeq(Written1[a].site, Written1[b].site)
    /\ \A a, b \in 1..Len(Written2) :
          a < b => /\ LexLeq(Written2[a].site, Written2[b].site)
                   /\ Written2[a].site # Written2[b].site

C3_Witness ==
    /\ pc = "returned"
    /\ Len(Written2) = 2
    /\ Len(Written1) >= 3
    /\ input[1].site = <<2>>

\* C4: a site-level row written by run_test has the sentinel weight when its
\* S is below the weight cutoff 4 and a weight in [0, 1] otherwise, whatever
\* the cutoff argument.
C4_WeightSentinelOrUnit ==
    \A j \in 1..Len(Written2) :
        IF Written2[j].S < 4
        THEN Written2[j].weight = Sentinel
        ELSE Written2[j].weight >= 0 /\ Written2[j].weight <= 10

C4_Witness ==
    /\ cutoff < 4
    /\ \E j \in 1..Len(Written2) : Written2[j].S < 4 /\ Written2[j].weight = Sentinel

\* C5: a second call on the same input and files leaves what the files held
\* when it began in place and appends the rows the call before it appended:
\* the number of rows the calls have added doubles.
C5_SecondRunAppendsSameRows ==
    \A k \in 2..calls :
        Ended(k) =>
            LET first1 == Drop(snaps[k].f1, Len(snaps[k - 1].f1))
                first2 == Drop(snaps[k].f2, Len(snaps[k - 1].f2))
            IN  /\ Take(snaps[k].f1, Len(snaps[k - 1].f1)) = snaps[k - 1].f1
                /\ Take(snaps[k].f2, Len(snaps[k - 1].f2)) = snaps[k - 1].f2
                /\ After(k).f1 = snaps[k].f1 \o first1
                /\ After(k).f2 = snaps[k].f2 \o first2
                /\ Len(After(k).f1) - Len(snaps[k - 1].f1) = 2 * Len(first1)
                /\ Len(After(k).f2) - Len(snaps[k - 1].f2) = 2 * Len(first2)

C5_Witness ==
    /\ calls = 2
    /\ pc = "returned"
    /\ Len(Written2) = 2
    /\ Written1 # <<>>

\* C6 as claimed: when the collaborators raise for a site, the sites after it
\* with S > cutoff still get their S species-level rows and their site-level
\* row.
C6_LaterSitesStillWritten ==
    (pc = "raised" /\ i >= 1) =>
        \A j \in (i + 1)..Len(usites) :
            Len(InputOf(usites[j])) > cutoff =>
                /\ Len(Select(Written1, usites[j])) = Len(InputOf(usites[j]))
                /\ Len(Select(Written2, usites[j])) = 1

\* C6 amended: when the collaborators raise for a site with S > cutoff, the
\* call ends there: the loop never goes past that site, and neither that site
\* nor any later one gets a row in either output.
C6_RaiseEndsTheCall ==
    InLoop =>
        \A j \in 1..Len(usites) :
            (RaisesAt(j) /\ Len(InputOf(usites[j])) > cutoff) =>
                /\ i <= j
                /\ \A h \in j..Len(usites) :
                      /\ Select(Written1, usites[h]) = <<>>
                      /\ Select(Written2, usites[h]) = <<>>

C6_Witness ==
    /\ pc = "raised"
    /\ i = 1
    /\ Len(usites) = 2
    /\ Len(InputOf(usites[2])) > cutoff
    /\ ~RaisesAt(2)

C8_RawHeightsCountUnitWeights ==
    height.data = "raw" =>
        /\ Len(height.bars) = 3
        /\ SumSeq(height.bars) =
              Cardinality({j \in 1..Len(out2) : out2[j].weight >= 0 /\ out2[j].weight <= 10})
        /\ \A j \in 1..Len(out2) :
              LET w == out2[j].weight
                  n == Cardinality({b \in 1..3 : Keep(w) /\ InBin(w, b)})
              IN  /\ w < 0 => n = 0
                  /\ (w >= 0 /\ w <= 10) => n = 1

C8_Witness ==
    /\ height.data = "raw"
    /\ \E j \in 1..Len(out2) : out2[j].weight = Sentinel
    /\ \E j \in 1..Len(out2) : out2[j].weight = 0
    /\ \E j \in 1..Len(out2) : out2[j].weight = 10

\* C9 as claimed: at every iteration of the loop, and in every site-level row
\* written, S and N are both positive.
C9_SAndNPositive ==
    /\ Iterated => (S > 0 /\ N > 0)
    /\ \A j \in 1..Len(Written2) : Written2[j].S > 0 /\ Written2[j].N > 0

\* C9 amended: at every iteration of the loop, and in every site-level row
\* written, S is positive and N is not negative; N is positive exactly when
\* some record of the site has a positive abundance.
C9_SPositiveNNonNegative ==
    /\ Iterated =>
          /\ S > 0
          /\ N >= 0
          /\ S = Len(InputOf(usites[i - (IF pc = "raised" THEN 0 ELSE 1)]))
          /\ N > 0 <=> \E j \in 1..Len(subab) : subab[j] > 0
    /\ \A j \in 1..Len(Written2) :
          /\ Written2[j].S > 0
          /\ Written2[j].N >= 0
          /\ Written2[j].N > 0 <=>
                \E h \in 1..Len(InputOf(Written2[j].site)) : InputOf(Written2[j].site)[h].ab > 0

C9_Witness ==
    /\ Iterated
    /\ N = 0
    /\ \E j \in 1..Len(Written2) : Written2[j].N = 0

\* C10: with cutoff > 2, every n with which AICc is called has n - k - 1 > 0
\* for k = 1 and for k = 2.
C10_DenominatorsPositive ==
    cutoff > 2 =>
        \A n \in aiccN :
            /\ n - k1 - 1 > 0
            /\ n - k2 - 1 > 0

C10_Witness ==
    /\ cutoff > 2
    /\ aiccN # {}

\* C10, second half: with cutoff <= 2 a call of AICc with n - k - 1 <= 0 is
\* reachable; this predicate describes such a state.
C10_LowCutoffReachesBadDenominator ==
    /\ cutoff <= 2
    /\ \E n \in aiccN : n - k1 - 1 <= 0 \/ n - k2 - 1 <= 0

====
